---- MODULE Spec2Model ----
(***************************************************************************)
(* A model of photo-sorter (src/sort.py): the filename/metadata date       *)
(* resolution, the ISO-6709 splitter, the address reduction, the geocoding *)
(* cache, the destination planner and the batch loop of main().            *)
(*                                                                         *)
(* Python strings are TLA+ strings; a character is a string of length 1.   *)
(* Python's None for a date is the record None (year 0, which no datetime  *)
(* has); None for a string is the string NoneStr.                          *)
(***************************************************************************)
EXTENDS Integers, Sequences, FiniteSets, TLC

VARIABLES
    \* ---- MediaFile date resolution (one MediaFile under construction)
    d_pc,         \* "new" before __init__ resolves the date, "done" after
    d_stem,       \* self.path.stem
    d_kind,       \* "image" or "movie" (decided by the suffix)
    d_meta,       \* DateTimeOriginal (image) or creation_time (movie); NoneStr if absent
    d_today,      \* datetime.date.today().year
    d_date,       \* self.date
    \* ---- MediaFile.__iso6709, one step per character
    iso_pc, iso_val, iso_i, iso_part, iso_ret,
    \* ---- MediaFile.__address2location
    a_pc, a_address, a_location,
    \* ---- MediaFile.dest_path, one step per candidate
    p_pc, p_fs, p_src, p_duplicate, p_dst, p_tried,
    \* ---- GeoLocator
    coordinates,         \* GeoLocator.coordinates: cache key -> address
    coordinates_pickle,  \* content of coordinates.pickle
    g_calls,             \* history: one record per address() call
    \* ---- main()
    pc,                  \* where main() is: init, check, plan, copy, end, done
    run,                 \* how many times the program was started
    source_directory, dryrun,   \* args
    tree,                \* the files under the source directories
    files, idx,          \* the list main() walks and the position in it
    stats, interrupted,
    media, dst_path,     \* the MediaFile in hand (its location and date) and its destination
    interrupt_sort,      \* the global the signal handler sets
    interrupt_pickle,    \* content of interrupt.pickle
    destfs,              \* the files under the destination directory
    log,                 \* history: what happened to each file of this run
    started,             \* history: positions whose processing began
    stop,                \* history: why the loop of this run ended
    resumed,             \* history: whether this run took up a saved state
    planned,             \* history: paths planned (copied or dry) by now
    copied               \* history: paths copied into the destination by now

varsDate == <<d_pc, d_stem, d_kind, d_meta, d_today, d_date>>
varsIso  == <<iso_pc, iso_val, iso_i, iso_part, iso_ret>>
varsLoc  == <<a_pc, a_address, a_location>>
varsDest == <<p_pc, p_fs, p_src, p_duplicate, p_dst, p_tried>>
varsGeo  == <<coordinates, coordinates_pickle, g_calls>>
varsMain == <<pc, run, source_directory, dryrun, tree, files, idx, stats,
              interrupted, media, dst_path, interrupt_sort, interrupt_pickle,
              destfs, log, started, stop, resumed, planned, copied>>
vars == <<varsDate, varsIso, varsLoc, varsDest, varsGeo, varsMain>>

-----------------------------------------------------------------------------
(* Strings *)

NoneStr == "<None>"

Min(a, b) == IF a < b THEN a ELSE b

\* s[i] for a 1-based position i
Ch(s, i) == SubSeq(s, i, i)

\* Python s[a:b] for 0 <= a <= b
Slice(s, a, b) == SubSeq(s, a + 1, Min(b, Len(s)))

\* Python s.startswith(p)
StartsWith(s, p) == Len(s) >= Len(p) /\ SubSeq(s, 1, Len(p)) = p

\* Python s.endswith(p)
EndsWith(s, p) == Len(s) >= Len(p) /\ SubSeq(s, Len(s) - Len(p) + 1, Len(s)) = p

\* the first position >= i of character c in s, Len(s) + 1 if there is none
RECURSIVE Find(_, _, _)
Find(s, c, i) ==
    IF i > Len(s) THEN Len(s) + 1
    ELSE IF Ch(s, i) = c THEN i
    ELSE Find(s, c, i + 1)

\* Python s.split('_')[1], for an s that holds a '_'
SplitSecond(s) ==
    LET first == Find(s, "_", 1)
        next  == Find(s, "_", first + 1)
    IN  SubSeq(s, first + 1, next - 1)

Digit == {"0", "1", "2", "3", "4", "5", "6", "7", "8", "9"}

DigitVal(c) ==
    CASE c = "0" -> 0 [] c = "1" -> 1 [] c = "2" -> 2 [] c = "3" -> 3
      [] c = "4" -> 4 [] c = "5" -> 5 [] c = "6" -> 6 [] c = "7" -> 7
      [] c = "8" -> 8 [] c = "9" -> 9 [] OTHER -> 0

\* int(s) for a string of digits and blanks (a blank counts as nothing)
RECURSIVE IntOf(_)
IntOf(s) ==
    IF s = "" THEN 0
    ELSE LET c == Ch(s, Len(s))
             rest == SubSeq(s, 1, Len(s) - 1)
         IN  IF c = " " THEN IntOf(rest) ELSE 10 * IntOf(rest) + DigitVal(c)

-----------------------------------------------------------------------------
(* datetime.datetime.strptime.  A format is a sequence of directives; a    *)
(* directive is the ordered list of the alternatives of its regular        *)
(* expression (Lib/_strptime.py), an alternative a sequence of character   *)
(* classes.  re.match takes the first alternatives, in order and with      *)
(* backtracking, under which the whole format matches a prefix of the      *)
(* string; strptime then rejects unconverted data.                         *)

D01 == {"0", "1"}
D02 == {"0", "1", "2"}
D03 == {"0", "1", "2", "3"}
D05 == {"0", "1", "2", "3", "4", "5"}
D12 == {"1", "2"}
D19 == Digit \ {"0"}

Dir_Y == [name |-> "Y", alts |-> << <<Digit, Digit, Digit, Digit>> >>]
Dir_y == [name |-> "y", alts |-> << <<Digit, Digit>> >>]
Dir_m == [name |-> "m", alts |-> << <<{"1"}, D02>>, <<{"0"}, D19>>, <<D19>> >>]
Dir_d == [name |-> "d", alts |-> << <<{"3"}, D01>>, <<D12, Digit>>, <<{"0"}, D19>>,
                                    <<D19>>, <<{" "}, D19>> >>]
Dir_H == [name |-> "H", alts |-> << <<{"2"}, D03>>, <<D01, Digit>>, <<Digit>> >>]
Dir_M == [name |-> "M", alts |-> << <<D05, Digit>>, <<Digit>> >>]
Dir_S == [name |-> "S", alts |-> << <<{"6"}, D01>>, <<D05, Digit>>, <<Digit>> >>]
Dir_f == [name |-> "f", alts |-> << <<Digit, Digit, Digit, Digit, Digit, Digit>>,
                                    <<Digit, Digit, Digit, Digit, Digit>>,
                                    <<Digit, Digit, Digit, Digit>>,
                                    <<Digit, Digit, Digit>>,
                                    <<Digit, Digit>>,
                                    <<Digit>> >>]
\* a literal character of the format (the expression is compiled IGNORECASE)
Lit(cs) == [name |-> "", alts |-> << <<cs>> >>]
\* a blank of the format is \s+
Blank == [name |-> "", alts |-> << <<{" "}, {" "}>>, <<{" "}>> >>]

FMT_Ymd  == <<Dir_Y, Dir_m, Dir_d>>                       \* '%Y%m%d'
FMT_ymd  == <<Dir_y, Dir_m, Dir_d>>                       \* '%y%m%d'
FMT_EXIF == <<Dir_Y, Lit({":"}), Dir_m, Lit({":"}), Dir_d, Blank,
              Dir_H, Lit({":"}), Dir_M, Lit({":"}), Dir_S>> \* '%Y:%m:%d %H:%M:%S'
FMT_ISO_T  == <<Dir_Y, Lit({"-"}), Dir_m, Lit({"-"}), Dir_d, Lit({"T", "t"}),
                Dir_H, Lit({":"}), Dir_M, Lit({":"}), Dir_S, Lit({"."}), Dir_f>>
FMT_ISO_SP == <<Dir_Y, Lit({"-"}), Dir_m, Lit({"-"}), Dir_d, Blank,
                Dir_H, Lit({":"}), Dir_M, Lit({":"}), Dir_S>>
FMT_ISO_TZ == FMT_ISO_T \o <<Lit({"Z", "z"})>>

MatchAlt(alt, s, i) ==
    /\ i + Len(alt) - 1 <= Len(s)
    /\ \A k \in 1..Len(alt) : Ch(s, i + k - 1) \in alt[k]

NoMatch == [ok |-> FALSE, caps |-> <<>>, end |-> 0]

RECURSIVE MatchFrom(_, _, _, _)
RECURSIVE TryAlts(_, _, _, _, _)
\* directives t.. of fmt against s from position i
MatchFrom(fmt, t, s, i) ==
    IF t > Len(fmt) THEN [ok |-> TRUE, caps |-> <<>>, end |-> i]
    ELSE TryAlts(fmt, t, s, i, 1)
\* alternatives a.. of directive t at position i
TryAlts(fmt, t, s, i, a) ==
    IF a > Len(fmt[t].alts) THEN NoMatch
    ELSE LET alt == fmt[t].alts[a]
         IN  IF MatchAlt(alt, s, i)
             THEN LET r == MatchFrom(fmt, t + 1, s, i + Len(alt))
                  IN  IF r.ok
                      THEN [ok |-> TRUE,
                            caps |-> <<SubSeq(s, i, i + Len(alt) - 1)>> \o r.caps,
                            end |-> r.end]
                      ELSE TryAlts(fmt, t, s, i, a + 1)
             ELSE TryAlts(fmt, t, s, i, a + 1)

\* the value of directive `name` in a match, dflt if the format has none
RECURSIVE Field(_, _, _, _, _)
Field(fmt, caps, name, dflt, t) ==
    IF t > Len(fmt) THEN dflt
    ELSE IF fmt[t].name = name THEN IntOf(caps[t])
    ELSE Field(fmt, caps, name, dflt, t + 1)

\* %f: the digits are padded on the right to six
RECURSIVE Micro(_)
Micro(s) == IF Len(s) >= 6 THEN IntOf(s) ELSE Micro(s \o "0")

IsLeap(y) == (y % 4 = 0 /\ y % 100 # 0) \/ y % 400 = 0

DaysIn(y, m) ==
    IF m = 2 THEN (IF IsLeap(y) THEN 29 ELSE 28)
    ELSE IF m \in {4, 6, 9, 11} THEN 30 ELSE 31

None == [year |-> 0, month |-> 0, day |-> 0,
         hour |-> 0, minute |-> 0, second |-> 0, micro |-> 0]

\* %y: 69..99 are 1969..1999, 00..68 are 2000..2068
Century(yy) == IF yy <= 68 THEN 2000 + yy ELSE 1900 + yy

\* datetime.datetime.strptime(s, fmt); None stands for its ValueError
Strptime(s, fmt) ==
    LET r == MatchFrom(fmt, 1, s, 1)
    IN  IF ~r.ok THEN None
        ELSE IF r.end # Len(s) + 1 THEN None      \* unconverted data remains
        ELSE LET y4 == Field(fmt, r.caps, "Y", 1900, 1)
                 y2 == Field(fmt, r.caps, "y", -1, 1)
                 y  == IF y2 >= 0 THEN Century(y2) ELSE y4
                 m  == Field(fmt, r.caps, "m", 1, 1)
                 d  == Field(fmt, r.caps, "d", 1, 1)
                 S  == Field(fmt, r.caps, "S", 0, 1)
                 f  == IF \E t \in 1..Len(fmt) : fmt[t].name = "f"
                       THEN Micro(r.caps[CHOOSE t \in 1..Len(fmt) : fmt[t].name = "f"])
                       ELSE 0
             IN  IF y < 1 \/ d > DaysIn(y, m) \/ S > 59 THEN None
                 ELSE [year |-> y, month |-> m, day |-> d,
                       hour |-> Field(fmt, r.caps, "H", 0, 1),
                       minute |-> Field(fmt, r.caps, "M", 0, 1),
                       second |-> S, micro |-> f]

-----------------------------------------------------------------------------
(* MediaFile: the date *)

MinYear == 1990

\* Validate without the check against the current year
Validate_NoUpperBound(date, today) ==
    IF date # None /\ date.year >= MinYear THEN date ELSE None

\* the validation of a filename date: in 1990 .. the current year
Validate(date, today) ==
    IF date # None /\ date.year >= MinYear /\ date.year <= today THEN date ELSE None

\* the IMG_ / MOV_ rule's try block
RuleIMG(stem, today) == Validate(Strptime(SplitSecond(stem), FMT_Ymd), today)

\* the FILE rule's try block
RuleFILE(stem, today) == Validate(Strptime(Slice(stem, 4, 10), FMT_ymd), today)

\* the date-prefix rule's try block
RulePrefix(stem, today) == Validate(Strptime(Slice(stem, 0, 8), FMT_Ymd), today)

\* MediaFile.__guess_date_by_filename
GuessDateByFilename(stem, today) ==
    IF StartsWith(stem, "IMG_") \/ StartsWith(stem, "MOV_") THEN RuleIMG(stem, today)
    ELSE IF StartsWith(stem, "FILE") THEN RuleFILE(stem, today)
    ELSE IF Len(stem) > 8 THEN RulePrefix(stem, today)
    ELSE None

\* __exif_date asking the embedded field first
ExifDate_MetadataFirst(stem, datetimeorig, today) ==
    IF datetimeorig # NoneStr /\ Strptime(datetimeorig, FMT_EXIF) # None
    THEN Strptime(datetimeorig, FMT_EXIF)
    ELSE GuessDateByFilename(stem, today)

\* MediaFile.__exif_date; datetimeorig is exif['DateTimeOriginal'], NoneStr if absent
ExifDate(stem, datetimeorig, today) ==
    LET date == GuessDateByFilename(stem, today)
    IN  IF date # None THEN date
        ELSE IF datetimeorig = NoneStr THEN date
        ELSE Strptime(datetimeorig, FMT_EXIF)

\* MediaFile.__metadata_date; creation_time is format.tags.creation_time,
\* NoneStr if any of format, tags, creation_time is absent
MetadataDate(stem, creation_time, today) ==
    LET date == GuessDateByFilename(stem, today)
        t1 == Strptime(creation_time, FMT_ISO_T)
        t2 == Strptime(creation_time, FMT_ISO_SP)
        t3 == Strptime(creation_time, FMT_ISO_TZ)
    IN  IF date # None THEN date
        ELSE IF creation_time = NoneStr THEN date
        ELSE IF t1 # None THEN t1
        ELSE IF t2 # None THEN t2
        ELSE IF t3 # None THEN t3
        ELSE date

\* the inputs: stems built of a prefix, a date and a tail
Prefixes == {"IMG_", "MOV_", "FILE", "", "x"}
Years4 == {"1985", "1989", "1990", "2023", "2024", "2025", "2026", "20x4"}
Years2 == {"85", "90", "24", "25", "26", "69"}
Months == {"04", "13", "4"}
Days == {"01", "31", "1"}
Tails == {"", "_1234", "A"}
Stems ==
    {p \o y \o m \o d \o t :
        p \in Prefixes, y \in Years4 \cup Years2, m \in Months, d \in Days, t \in Tails}
    \cup {"", "IMG_", "FILE", "photo", "holiday_pic"}
Todays == {2024, 2025}
DateTimeOriginals ==
    {NoneStr, "2099:01:01 00:00:00", "2019:07:04 12:30:45",
     "0000:00:00 00:00:00", "2019-07-04 12:30:45"}
CreationTimes ==
    {NoneStr, "2021-05-06T07:08:09.000000Z", "2021-05-06 07:08:09",
     "2021-05-06T07:08:09.123", "2021-05-06T07:08:09Z"}

-----------------------------------------------------------------------------
(* MediaFile.__iso6709 *)

Sign == {"+", "-"}

\* one pass of the loop over the characters: <<ret, part>> after char
IsoChar(ret, part, char) ==
    IF char \in Sign /\ part # ""
    THEN <<Append(ret, part), char>>
    ELSE <<ret, part \o char>>

\* the code after the loop
IsoLast(ret, part) ==
    IF part # ""
    THEN Append(ret, IF EndsWith(part, "/") THEN SubSeq(part, 1, Len(part) - 1) ELSE part)
    ELSE ret

RECURSIVE IsoLoop(_, _, _, _)
IsoLoop(val, i, ret, part) ==
    IF i > Len(val) THEN IsoLast(ret, part)
    ELSE LET n == IsoChar(ret, part, Ch(val, i))
         IN  IsoLoop(val, i + 1, n[1], n[2])

Iso6709(val) == IsoLoop(val, 1, <<>>, "")

-----------------------------------------------------------------------------
(* Coordinates.  A coordinate is a whole number of 1/90000 degree, the     *)
(* unit in which both a degree/minute/second triple of whole numbers and a *)
(* decimal of four places are exact.  The inputs hold no coordinate that   *)
(* lies exactly between two thousandths, where round() depends on the      *)
(* binary representation of the float.                                     *)

UnitsPerDegree == 90000
UnitsPerSecond == 25        \* 1/3600 degree
UnitsPerMilli  == 90        \* 1/1000 degree
UnitsPerTenth4 == 9         \* 1/10000 degree

Abs(x) == IF x < 0 THEN -x ELSE x

\* float(degrees) + float(minutes) / float(60) + float(seconds) / float(3600)
DmsToDegrees(t) == (t[1] * 3600 + t[2] * 60 + t[3]) * UnitsPerSecond

\* whether float(s) accepts s: an optional sign, digits, and optionally a
\* point and up to four digits
IsFloat(s) ==
    LET body == IF s # "" /\ Ch(s, 1) \in Sign THEN Tail(s) ELSE s
        dot  == Find(body, ".", 1)
        int  == SubSeq(body, 1, dot - 1)
        frac == SubSeq(body, dot + 1, Len(body))
    IN  /\ int \o frac # ""
        /\ Len(frac) <= 4
        /\ \A k \in 1..Len(int) : Ch(int, k) \in Digit
        /\ \A k \in 1..Len(frac) : Ch(frac, k) \in Digit

RECURSIVE PadRight(_, _)
PadRight(s, n) == IF Len(s) >= n THEN s ELSE PadRight(s \o "0", n)

\* float(s), for an s that IsFloat
Float(s) ==
    LET neg  == s # "" /\ Ch(s, 1) = "-"
        body == IF s # "" /\ Ch(s, 1) \in Sign THEN Tail(s) ELSE s
        dot  == Find(body, ".", 1)
        int  == SubSeq(body, 1, dot - 1)
        frac == SubSeq(body, dot + 1, Len(body))
        mag  == IntOf(int) * UnitsPerDegree + IntOf(PadRight(frac, 4)) * UnitsPerTenth4
    IN  IF neg THEN -mag ELSE mag

\* round(x, 3), in thousandths of a degree
Round3(x) ==
    LET q == Abs(x) \div UnitsPerMilli
        r == Abs(x) % UnitsPerMilli
        n == IF 2 * r > UnitsPerMilli THEN q + 1 ELSE q
    IN  IF x < 0 THEN -n ELSE n

RECURSIVE StripZeros(_)
StripZeros(s) ==
    IF Len(s) > 1 /\ Ch(s, Len(s)) = "0" THEN StripZeros(SubSeq(s, 1, Len(s) - 1)) ELSE s

RECURSIVE PadLeft(_, _)
PadLeft(s, n) == IF Len(s) >= n THEN s ELSE PadLeft("0" \o s, n)

\* str(round(x, 3)): a negative x that rounds to zero prints as -0.0
Round3Str(x) ==
    LET n == Abs(Round3(x))
    IN  (IF x < 0 THEN "-" ELSE "")
        \o ToString(n \div 1000) \o "." \o StripZeros(PadLeft(ToString(n % 1000), 3))

\* the cache key f'{round(latitude, 3)},{round(longitude, 3)}'
CacheKey(latitude, longitude) == Round3Str(latitude) \o "," \o Round3Str(longitude)

-----------------------------------------------------------------------------
(* MediaFile.__address2location.  An address is a function from some of   *)
(* the component names to strings; NoneAddr is Python's None.              *)

NoneAddr == [none |-> NoneStr]

\* __address2location asking for the town before the village
Address2Location_TownFirst(address) ==
    IF address = NoneAddr \/ DOMAIN address = {} THEN NoneStr
    ELSE IF "suburb" \in DOMAIN address
         THEN IF "town" \in DOMAIN address
              THEN address["town"] \o "_" \o address["suburb"]
              ELSE IF "village" \in DOMAIN address
                   THEN address["village"] \o "_" \o address["suburb"]
                   ELSE address["suburb"]
    ELSE IF "town" \in DOMAIN address THEN address["town"]
    ELSE IF "village" \in DOMAIN address THEN address["village"]
    ELSE IF "state" \in DOMAIN address THEN address["state"]
    ELSE NoneStr

Address2Location(address) ==
    IF address = NoneAddr \/ DOMAIN address = {} THEN NoneStr
    ELSE IF "suburb" \in DOMAIN address
         THEN IF "village" \in DOMAIN address
              THEN address["village"] \o "_" \o address["suburb"]
              ELSE IF "town" \in DOMAIN address
                   THEN address["town"] \o "_" \o address["suburb"]
                   ELSE address["suburb"]
    ELSE IF "village" \in DOMAIN address THEN address["village"]
    ELSE IF "town" \in DOMAIN address THEN address["town"]
    ELSE IF "state" \in DOMAIN address THEN address["state"]
    ELSE NoneStr

-----------------------------------------------------------------------------
(* GeoLocator *)

\* geopy's Nominatim.reverse(...).raw['address'], the service being up: a
\* latitude beyond 90 degrees is a ValueError, a place the service knows
\* nothing of gives no result (reverse returns None, and .raw raises
\* AttributeError), any other place has an address, which depends on the
\* exact coordinates
Reverse(latitude, longitude) ==
    IF Abs(latitude) > 90 * UnitsPerDegree
    THEN [exc |-> "ValueError", address |-> NoneAddr]
    ELSE IF latitude >= 60 * UnitsPerDegree
    THEN [exc |-> "AttributeError", address |-> NoneAddr]
    ELSE IF latitude < 0
    THEN [exc |-> "", address |-> [state |-> "Gulf"]]
    ELSE [exc |-> "",
          address |-> [town |-> "Paris",
                       suburb |-> "Q" \o ToString((latitude + longitude) % 5)]]

\* address() that returns what it fetched without storing it
Address_NoStore(cache, latitude, longitude, available) ==
    LET key == CacheKey(latitude, longitude)
        r   == Reverse(latitude, longitude)
    IN  IF key \in DOMAIN cache
        THEN [exc |-> "", ret |-> cache[key], cache |-> cache, lookup |-> FALSE]
        ELSE IF r.exc = "ValueError"
        THEN [exc |-> "", ret |-> NoneAddr, cache |-> cache, lookup |-> TRUE]
        ELSE IF ~available
        THEN [exc |-> "GeocoderUnavailable", ret |-> NoneAddr, cache |-> cache,
              lookup |-> TRUE]
        ELSE IF r.exc # ""
        THEN [exc |-> r.exc, ret |-> NoneAddr, cache |-> cache, lookup |-> TRUE]
        ELSE [exc |-> "", ret |-> r.address, cache |-> cache, lookup |-> TRUE]

\* GeoLocator.address: the exception it raises ("" if none), what it returns,
\* the cache afterwards and whether it called the service.  `available` is
\* whether the service answers; an unanswered request raises
\* GeocoderUnavailable, but geopy rejects a bad latitude before any request
Address(cache, latitude, longitude, available) ==
    LET key == CacheKey(latitude, longitude)
        r   == Reverse(latitude, longitude)
    IN  IF key \in DOMAIN cache
        THEN [exc |-> "", ret |-> cache[key], cache |-> cache, lookup |-> FALSE]
        ELSE IF r.exc = "ValueError"
        THEN [exc |-> "", ret |-> NoneAddr, cache |-> cache, lookup |-> TRUE]
        ELSE IF ~available
        THEN [exc |-> "GeocoderUnavailable", ret |-> NoneAddr, cache |-> cache,
              lookup |-> TRUE]
        ELSE IF r.exc # ""
        THEN [exc |-> r.exc, ret |-> NoneAddr, cache |-> cache, lookup |-> TRUE]
        ELSE [exc |-> "", ret |-> r.address, cache |-> (key :> r.address) @@ cache,
              lookup |-> TRUE]

-----------------------------------------------------------------------------
(* MediaFile: the location *)

\* what a location method hands back: the exception it lets through ("" if
\* none), the location, the cache afterwards, whether the service was called
LocResult(a) ==
    [exc |-> a.exc,
     location |-> IF a.exc = "" THEN Address2Location(a.ret) ELSE NoneStr,
     cache |-> a.cache, lookup |-> a.lookup]
NoLocation(cache) == [exc |-> "", location |-> NoneStr, cache |-> cache, lookup |-> FALSE]
Raised(exc, cache) == [exc |-> exc, location |-> NoneStr, cache |-> cache, lookup |-> FALSE]

\* MediaFile.__exif_location.  exif.has_gps is 'GPSInfo' in self.exif, exif.gps
\* the GPSInfo mapping from index to a tuple of numbers.  Only KeyError is
\* caught: unpacking a tuple that is not of three raises ValueError
ExifLocation(exif, cache, available) ==
    IF ~exif.has_gps THEN NoLocation(cache)
    ELSE IF 2 \notin DOMAIN exif.gps THEN NoLocation(cache)            \* KeyError
    ELSE IF Len(exif.gps[2]) # 3 THEN Raised("ValueError", cache)
    ELSE IF 4 \notin DOMAIN exif.gps THEN NoLocation(cache)            \* KeyError
    ELSE IF Len(exif.gps[4]) # 3 THEN Raised("ValueError", cache)
    ELSE LocResult(Address(cache, DmsToDegrees(exif.gps[2]),
                           DmsToDegrees(exif.gps[4]), available))

\* MediaFile.__metadata_location.  metadata.has_tags is whether the probe
\* result has format.tags, metadata.tags the tags
LocationTag(metadata) ==
    IF ~metadata.has_tags THEN NoneStr
    ELSE IF "location" \in DOMAIN metadata.tags THEN metadata.tags["location"]
    ELSE IF "com.apple.quicktime.location.ISO6709" \in DOMAIN metadata.tags
         THEN metadata.tags["com.apple.quicktime.location.ISO6709"]
    ELSE NoneStr

MetadataLocation(metadata, cache, available) ==
    LET location == LocationTag(metadata)
        geolocation == Iso6709(location)
    IN  IF location = NoneStr THEN NoLocation(cache)
        ELSE IF Len(geolocation) >= 2
        THEN IF IsFloat(geolocation[1]) /\ IsFloat(geolocation[2])
             THEN LocResult(Address(cache, Float(geolocation[1]),
                                    Float(geolocation[2]), available))
             ELSE Raised("ValueError", cache)
        ELSE NoLocation(cache)

\* format.tags.creation_time of a probe result, NoneStr if absent
CreationTime(metadata) ==
    IF metadata.has_tags /\ "creation_time" \in DOMAIN metadata.tags
    THEN metadata.tags["creation_time"]
    ELSE NoneStr

-----------------------------------------------------------------------------
(* MediaFile: the destination.  A file system is a function from paths to  *)
(* files; a file has a content and a modification time, and its size is    *)
(* the length of its content.                                              *)

\* date.strftime('%Y/%m')
StrftimeYm(date) ==
    PadLeft(ToString(date.year), 4) \o "/" \o PadLeft(ToString(date.month), 2)

\* MediaFile.__dest_directory
DestDirectory(dst_base, date, location) ==
    dst_base \o "/"
    \o (IF date # None THEN StrftimeYm(date) ELSE "0000")
    \o (IF location # NoneStr /\ location # "" THEN "/" \o location ELSE "")

\* MediaFile.__dest_name
DestName(stem, suffix, duplicate) ==
    IF duplicate = 0 THEN stem \o suffix
    ELSE stem \o "_" \o ToString(duplicate) \o suffix

\* filecmp.cmp(f1, f2), shallow as by default: two regular files of the same
\* size and modification time are taken for equal without being read
Cmp(f1, f2) ==
    IF Len(f1.content) = Len(f2.content) /\ f1.mtime = f2.mtime THEN TRUE
    ELSE IF Len(f1.content) # Len(f2.content) THEN FALSE
    ELSE f1.content = f2.content

\* the loop of dest_path without the comparison: an existing name is passed over
DestTry_NoCompare(fs, directory, src, duplicate) ==
    LET dst == directory \o "/" \o DestName(src.stem, src.suffix, duplicate)
    IN  IF dst \in DOMAIN fs
        THEN [next |-> "again", dst |-> dst]
        ELSE [next |-> "break", dst |-> dst]

\* one pass of the loop of dest_path
DestTry(fs, directory, src, duplicate) ==
    LET dst == directory \o "/" \o DestName(src.stem, src.suffix, duplicate)
    IN  IF dst \in DOMAIN fs
        THEN IF Cmp(fs[dst], src)
             THEN [next |-> "raise", dst |-> dst]
             ELSE [next |-> "again", dst |-> dst]
        ELSE [next |-> "break", dst |-> dst]

\* MediaFile.dest_path from candidate `duplicate` on: dup is whether it
\* raises DuplicateException, dst the path returned (or found identical)
RECURSIVE DestPathFrom(_, _, _, _)
DestPathFrom(fs, directory, src, duplicate) ==
    LET t == DestTry(fs, directory, src, duplicate)
    IN  IF t.next = "again" THEN DestPathFrom(fs, directory, src, duplicate + 1)
        ELSE [dup |-> t.next = "raise", dst |-> t.dst]

DestPath(fs, directory, src) == DestPathFrom(fs, directory, src, 0)

\* MediaFile.copy: shutil.copyfile writes the content; the copy is new
Copy(fs, src, dst, now) == (dst :> [content |-> src.content, mtime |-> now]) @@ fs

-----------------------------------------------------------------------------
(* MediaFile.__init__ and main() *)

LowerCh(c) ==
    CASE c = "A" -> "a" [] c = "E" -> "e" [] c = "G" -> "g" [] c = "I" -> "i"
      [] c = "J" -> "j" [] c = "M" -> "m" [] c = "N" -> "n" [] c = "O" -> "o"
      [] c = "P" -> "p" [] c = "V" -> "v" [] OTHER -> c

\* str.lower(), for the letters of the suffixes in use
RECURSIVE Lower(_)
Lower(s) == IF s = "" THEN "" ELSE LowerCh(Ch(s, 1)) \o Lower(Tail(s))

\* a new MediaFile: the location method's result l with the date; the date
\* method is not reached when the location method raised
Constructed(l, date) ==
    [exc |-> l.exc, location |-> l.location, cache |-> l.cache,
     date |-> IF l.exc = "" THEN date ELSE None]

\* MediaFile.__init__: the exception it lets through ("" if none), the
\* location and date of the new object, and the cache afterwards
MediaFile(f, cache, available, today) ==
    IF Lower(f.suffix) \in {".jpg", ".jpeg", ".png"}
    THEN Constructed(ExifLocation(f.exif, cache, available),
                     ExifDate(f.stem, f.exif.dto, today))
    ELSE IF Lower(f.suffix) \in {".mp4", ".mov", ".avi"}
    THEN Constructed(MetadataLocation(f.metadata, cache, available),
                     MetadataDate(f.stem, CreationTime(f.metadata), today))
    ELSE [exc |-> "UnknownMedia", location |-> NoneStr, cache |-> cache, date |-> None]

\* the stats main() starts with
NewStats(source) == [source |-> source, paths |-> {}, bytes |-> 0, duplicates |-> 0]

\* interrupt.pickle: absent, or holding the stats dumped last
NoPickle == [exists |-> FALSE]
Pickled(st) == [exists |-> TRUE, stats |-> st]

\* "Try to load a previous state": the stats main() goes on with
LoadStats(pickle, source, user_input) ==
    IF pickle.exists /\ pickle.stats.source = source /\ user_input # "n"
    THEN pickle.stats
    ELSE NewStats(source)

\* the except clauses of the loop but for the geocoder's not stopping the batch
Handle_GeocoderContinues(exc, st, path) ==
    IF exc = "UnknownMedia" \/ exc = "GeocoderUnavailable"
    THEN [stats |-> [st EXCEPT !.paths = @ \cup {path}], break |-> FALSE]
    ELSE IF exc = "DuplicateException"
    THEN [stats |-> [st EXCEPT !.paths = @ \cup {path}, !.duplicates = @ + 1],
          break |-> FALSE]
    ELSE [stats |-> st, break |-> TRUE]

\* the except clauses of the loop: the stats afterwards, and whether the
\* handler sets interrupted and breaks
Handle(exc, st, path) ==
    IF exc = "GeocoderUnavailable" THEN [stats |-> st, break |-> TRUE]
    ELSE IF exc = "UnknownMedia"
    THEN [stats |-> [st EXCEPT !.paths = @ \cup {path}], break |-> FALSE]
    ELSE IF exc = "DuplicateException"
    THEN [stats |-> [st EXCEPT !.paths = @ \cup {path}, !.duplicates = @ + 1],
          break |-> FALSE]
    ELSE [stats |-> st, break |-> TRUE]

\* the end of main() leaving the file alone after a clean run
AtExit_KeepsFile(was_interrupted, pickle, st) ==
    IF was_interrupted THEN Pickled(st) ELSE pickle

\* the end of main(): interrupt.pickle is written if interrupted, removed if not
AtExit(was_interrupted, pickle, st) ==
    IF was_interrupted THEN Pickled(st) ELSE NoPickle

-----------------------------------------------------------------------------
(* The specifications.  Each one runs one part of the program; the         *)
(* variables of the other parts stay idle.                                 *)

IdleDate ==
    /\ d_pc = "idle" /\ d_stem = "" /\ d_kind = "image" /\ d_meta = NoneStr
    /\ d_today = 0 /\ d_date = None
IdleIso ==
    /\ iso_pc = "idle" /\ iso_val = "" /\ iso_i = 0 /\ iso_part = "" /\ iso_ret = <<>>
IdleLoc ==
    /\ a_pc = "idle" /\ a_address = <<>> /\ a_location = NoneStr
IdleDest ==
    /\ p_pc = "idle" /\ p_fs = <<>> /\ p_src = <<>> /\ p_duplicate = 0
    /\ p_dst = NoneStr /\ p_tried = <<>>
IdleGeo ==
    /\ coordinates = <<>> /\ coordinates_pickle = <<>> /\ g_calls = <<>>
IdleMain ==
    /\ pc = "idle" /\ run = 0 /\ source_directory = "" /\ dryrun = FALSE
    /\ tree = <<>> /\ files = <<>> /\ idx = 0 /\ stats = <<>>
    /\ interrupted = FALSE /\ media = <<>> /\ dst_path = NoneStr
    /\ interrupt_sort = FALSE /\ interrupt_pickle = <<>> /\ destfs = <<>> /\ log = <<>> /\ started = {}
    /\ stop = "" /\ resumed = FALSE /\ planned = {} /\ copied = {}

(* ---- the date of a MediaFile ---- *)

InitDate ==
    /\ d_pc = "new"
    /\ d_stem \in Stems
    /\ d_kind \in {"image", "movie"}
    /\ d_meta \in (IF d_kind = "image" THEN DateTimeOriginals ELSE CreationTimes)
    /\ d_today \in Todays
    /\ d_date = None
    /\ IdleIso /\ IdleLoc /\ IdleDest /\ IdleGeo /\ IdleMain

\* MediaFile.__init__ of an image: self.date = self.__exif_date()
ImageDate ==
    /\ d_pc = "new" /\ d_kind = "image"
    /\ d_date' = ExifDate(d_stem, d_meta, d_today)
    /\ d_pc' = "done"
    /\ UNCHANGED <<d_stem, d_kind, d_meta, d_today>>
    /\ UNCHANGED <<varsIso, varsLoc, varsDest, varsGeo, varsMain>>

\* MediaFile.__init__ of a movie: self.date = self.__metadata_date()
MovieDate ==
    /\ d_pc = "new" /\ d_kind = "movie"
    /\ d_date' = MetadataDate(d_stem, d_meta, d_today)
    /\ d_pc' = "done"
    /\ UNCHANGED <<d_stem, d_kind, d_meta, d_today>>
    /\ UNCHANGED <<varsIso, varsLoc, varsDest, varsGeo, varsMain>>

NextDate == ImageDate \/ MovieDate

SpecDate == InitDate /\ [][NextDate]_vars

(* ---- __iso6709, character by character ---- *)

MaxIsoLen == 4

IsoAlphabet == {"+", "-", "1", ".", "/"}

RECURSIVE IsoStrings(_)
IsoStrings(n) ==
    IF n = 0 THEN {""}
    ELSE LET shorter == IsoStrings(n - 1)
         IN  shorter \cup {s \o c : s \in shorter, c \in IsoAlphabet}

InitIso ==
    /\ iso_pc = "loop"
    /\ iso_val \in IsoStrings(MaxIsoLen) \cup {"+48.8566+002.3522/", "+48.8566-002.3522+35/"}
    /\ iso_i = 0
    /\ iso_part = ""
    /\ iso_ret = <<>>
    /\ IdleDate /\ IdleLoc /\ IdleDest /\ IdleGeo /\ IdleMain

\* for char in val: ...
IsoNextChar ==
    /\ iso_pc = "loop" /\ iso_i < Len(iso_val)
    /\ LET n == IsoChar(iso_ret, iso_part, Ch(iso_val, iso_i + 1))
       IN  iso_ret' = n[1] /\ iso_part' = n[2]
    /\ iso_i' = iso_i + 1
    /\ UNCHANGED <<iso_pc, iso_val>>
    /\ UNCHANGED <<varsDate, varsLoc, varsDest, varsGeo, varsMain>>

\* the loop is over: the last part, and return ret
IsoReturn ==
    /\ iso_pc = "loop" /\ iso_i = Len(iso_val)
    /\ iso_ret' = IsoLast(iso_ret, iso_part)
    /\ iso_pc' = "done"
    /\ UNCHANGED <<iso_val, iso_i, iso_part>>
    /\ UNCHANGED <<varsDate, varsLoc, varsDest, varsGeo, varsMain>>

NextIso == IsoNextChar \/ IsoReturn

SpecIso == InitIso /\ [][NextIso]_vars

(* ---- __address2location ---- *)

AddressKeys == {"suburb", "village", "town", "state", "country"}
AddressNames == {"A", "B", "C"}
Addresses == UNION {[ks -> AddressNames] : ks \in SUBSET AddressKeys} \cup {NoneAddr}

InitLoc ==
    /\ a_pc = "new"
    /\ a_address \in Addresses
    /\ a_location = NoneStr
    /\ IdleDate /\ IdleIso /\ IdleDest /\ IdleGeo /\ IdleMain

Address2LocationCall ==
    /\ a_pc = "new"
    /\ a_location' = Address2Location(a_address)
    /\ a_pc' = "done"
    /\ UNCHANGED a_address
    /\ UNCHANGED <<varsDate, varsIso, varsDest, varsGeo, varsMain>>

NextLoc == Address2LocationCall

SpecLoc == InitLoc /\ [][NextLoc]_vars

(* ---- dest_path, candidate by candidate ---- *)

MaxExisting == 2

Contents == {"aa", "bb", "ccc"}
MTimes == {0, 1}
ExistingFiles == [content : Contents, mtime : MTimes]

\* the directory the planner looks in
PlanDirectory ==
    DestDirectory("out", [None EXCEPT !.year = 2023, !.month = 4, !.day = 1], NoneStr)

Candidate(src, k) == PlanDirectory \o "/" \o DestName(src.stem, src.suffix, k)

InitDest ==
    /\ p_pc = "loop"
    /\ p_src \in [stem : {"photo"}, suffix : {".jpg"}, content : {"aa", "bb"}, mtime : MTimes]
    /\ \E ks \in SUBSET (0..MaxExisting) :
          p_fs \in [{Candidate(p_src, k) : k \in ks} -> ExistingFiles]
    /\ p_duplicate = 0
    /\ p_dst = NoneStr
    /\ p_tried = <<>>
    /\ IdleDate /\ IdleIso /\ IdleLoc /\ IdleGeo /\ IdleMain

\* the candidate exists and differs: duplicate += 1
DestPathAgain ==
    /\ p_pc = "loop"
    /\ LET t == DestTry(p_fs, PlanDirectory, p_src, p_duplicate)
       IN  /\ t.next = "again"
           /\ p_tried' = Append(p_tried, t.dst)
    /\ p_duplicate' = p_duplicate + 1
    /\ UNCHANGED <<p_pc, p_fs, p_src, p_dst>>
    /\ UNCHANGED <<varsDate, varsIso, varsLoc, varsGeo, varsMain>>

\* the candidate exists and filecmp.cmp takes it for the source: raise
DestPathRaise ==
    /\ p_pc = "loop"
    /\ LET t == DestTry(p_fs, PlanDirectory, p_src, p_duplicate)
       IN  /\ t.next = "raise"
           /\ p_tried' = Append(p_tried, t.dst)
    /\ p_pc' = "raised"
    /\ UNCHANGED <<p_fs, p_src, p_duplicate, p_dst>>
    /\ UNCHANGED <<varsDate, varsIso, varsLoc, varsGeo, varsMain>>

\* the candidate does not exist: break, return dst
DestPathReturn ==
    /\ p_pc = "loop"
    /\ LET t == DestTry(p_fs, PlanDirectory, p_src, p_duplicate)
       IN  /\ t.next = "break"
           /\ p_tried' = Append(p_tried, t.dst)
           /\ p_dst' = t.dst
    /\ p_pc' = "returned"
    /\ UNCHANGED <<p_fs, p_src, p_duplicate>>
    /\ UNCHANGED <<varsDate, varsIso, varsLoc, varsGeo, varsMain>>

NextDest == DestPathAgain \/ DestPathRaise \/ DestPathReturn

SpecDest == InitDest /\ [][NextDest]_vars

(* ---- GeoLocator.address, call after call ---- *)

MaxCalls == 3

\* the coordinates asked for: two that share a cache key, one beside them,
\* one beyond the pole, one without a result, and two either side of zero
Points ==
    {<<Float("48.8566"), Float("2.3522")>>,
     <<Float("48.8567"), Float("2.3524")>>,
     <<Float("48.8561"), Float("2.3522")>>,
     <<Float("91.0"), Float("2.3522")>>,
     <<Float("70.0"), Float("2.3522")>>,
     <<Float("-0.0003"), Float("2.3522")>>,
     <<Float("0.0003"), Float("2.3522")>>}

\* coordinates.pickle of an earlier run, if there is one
SavedCaches ==
    {<<>>, (CacheKey(Float("48.8561"), Float("2.3522")) :> [town |-> "Paris", suburb |-> "Q0"])}

\* GeoLocator.__init__ has loaded the pickle file, if any
InitGeo ==
    /\ coordinates_pickle \in SavedCaches
    /\ coordinates = coordinates_pickle
    /\ g_calls = <<>>
    /\ IdleDate /\ IdleIso /\ IdleLoc /\ IdleDest /\ IdleMain

\* one call of address(latitude, longitude); persist() after a store
AddressCall ==
    \E pt \in Points, available \in BOOLEAN :
        LET r == Address(coordinates, pt[1], pt[2], available)
        IN  /\ Len(g_calls) < MaxCalls
            /\ coordinates' = r.cache
            /\ coordinates_pickle' =
                   IF r.cache # coordinates THEN r.cache ELSE coordinates_pickle
            /\ g_calls' = Append(g_calls,
                   [key |-> CacheKey(pt[1], pt[2]), point |-> pt, lookup |-> r.lookup,
                    exc |-> r.exc, ret |-> r.ret])
            /\ UNCHANGED <<varsDate, varsIso, varsLoc, varsDest, varsMain>>

NextGeo == AddressCall

SpecGeo == InitGeo /\ [][NextGeo]_vars

(* ---- main() ---- *)

MaxFiles == 2
MaxRuns == 2

NoExif == [has_gps |-> FALSE, gps |-> <<>>, dto |-> NoneStr]
NoMetadata == [has_tags |-> FALSE, tags |-> <<>>]

File(source, depth, dir, stem, suffix, content, exif, metadata) ==
    [path |-> dir \o "/" \o stem \o suffix, source |-> source, depth |-> depth,
     stem |-> stem, suffix |-> suffix, content |-> content, mtime |-> 0,
     exif |-> exif, metadata |-> metadata]

\* the files the source directories may hold, in the order glob lists them
Universe ==
    << File("in", 0, "in", "IMG_20230401_1234", ".jpg", "aa",
            [NoExif EXCEPT !.dto = "2099:01:01 00:00:00"], NoMetadata),
       File("in", 0, "in", "notes", ".txt", "n", NoExif, NoMetadata),
       File("in", 1, "in/a", "IMG_20230401_1234", ".jpg", "aa", NoExif, NoMetadata),
       File("in", 1, "in/b", "IMG_20230401_1234", ".jpg", "bb", NoExif, NoMetadata),
       File("in", 0, "in", "photo", ".jpg", "ccc",
            [has_gps |-> TRUE, gps |-> (2 :> <<48, 51, 24>> @@ 4 :> <<2, 21, 8>>),
             dto |-> "2019:07:04 12:30:45"], NoMetadata),
       File("in", 0, "in", "nolat", ".JPG", "dd",
            [has_gps |-> TRUE, gps |-> (4 :> <<2, 21, 8>>), dto |-> NoneStr], NoMetadata),
       File("in", 0, "in", "pair", ".jpg", "ee",
            [has_gps |-> TRUE, gps |-> (2 :> <<48, 51>> @@ 4 :> <<2, 21, 8>>),
             dto |-> NoneStr], NoMetadata),
       File("in", 0, "in", "MOV_20220101_1", ".mp4", "ffff", NoExif,
            [has_tags |-> TRUE, tags |-> [location |-> "+48.8566+002.3522/"]]),
       File("in", 0, "in", "clip", ".mov", "gg", NoExif,
            [has_tags |-> TRUE,
             tags |-> [location |-> "+48.8566/",
                       creation_time |-> "2021-05-06T07:08:09.000000Z"]]),
       File("in2", 0, "in2", "pic", ".png", "hh", NoExif, NoMetadata) >>

\* the files of the universe at the positions ks, in order
RECURSIVE Pick(_, _)
Pick(ks, k) ==
    IF k > Len(Universe) THEN <<>>
    ELSE (IF k \in ks THEN <<Universe[k]>> ELSE <<>>) \o Pick(ks, k + 1)

\* source_directory.glob(pattern): '*' lists the directory, '**/*' what is below too
RECURSIVE Glob(_, _, _)
Glob(t, source, recursive) ==
    IF t = <<>> THEN <<>>
    ELSE (IF Head(t).source = source /\ (recursive \/ Head(t).depth = 0)
          THEN <<Head(t)>> ELSE <<>>) \o Glob(Tail(t), source, recursive)

Sources == {"in", "in2"}
DestBase == "out"
MainToday == CHOOSE t \in Todays : \A u \in Todays : u <= t

FileOf(path) == CHOOSE k \in 1..Len(Universe) : Universe[k].path = path

NoMedia == [location |-> NoneStr, date |-> None]

InitMain ==
    /\ pc = "init"
    /\ run = 0
    /\ \E ks \in SUBSET (1..Len(Universe)) :
          Cardinality(ks) <= MaxFiles /\ tree = Pick(ks, 1)
    /\ source_directory = "" /\ dryrun = FALSE
    /\ files = <<>> /\ idx = 0 /\ stats = NewStats("")
    /\ interrupted = FALSE /\ media = NoMedia /\ dst_path = NoneStr
    /\ interrupt_sort = FALSE /\ interrupt_pickle = NoPickle
    /\ destfs = <<>>
    /\ coordinates = <<>> /\ coordinates_pickle = <<>> /\ g_calls = <<>>
    /\ log = <<>> /\ started = {} /\ stop = "" /\ resumed = FALSE
    /\ planned = {} /\ copied = {}
    /\ IdleDate /\ IdleIso /\ IdleLoc /\ IdleDest

Entry(outcome, location) ==
    [idx |-> idx, path |-> files[idx].path, outcome |-> outcome, location |-> location,
     again |-> files[idx].path \in planned, had_copy |-> files[idx].path \in copied]

\* the program is started: the arguments, GeoLocator(), the saved state, glob
Start ==
    /\ pc \in {"init", "done"} /\ run < MaxRuns
    /\ \E source \in Sources, recursive \in BOOLEAN, dry \in BOOLEAN,
          user_input \in {"", "n"} :
          /\ source_directory' = source
          /\ dryrun' = dry
          /\ stats' = LoadStats(interrupt_pickle, source, user_input)
          /\ resumed' = (interrupt_pickle.exists /\ stats' = interrupt_pickle.stats)
          /\ files' = Glob(tree, source, recursive)
    /\ run' = run + 1
    /\ coordinates' = coordinates_pickle
    /\ interrupt_sort' = FALSE
    /\ interrupted' = FALSE
    /\ idx' = 1
    /\ pc' = "check"
    /\ log' = <<>> /\ started' = {} /\ stop' = ""
    /\ UNCHANGED <<tree, media, dst_path, interrupt_pickle, destfs, planned, copied,
                   coordinates_pickle, g_calls>>
    /\ UNCHANGED <<varsDate, varsIso, varsLoc, varsDest>>

\* signal_handler: CTRL-C while the program runs
Signal ==
    /\ pc \in {"check", "plan", "copy", "end"}
    /\ ~interrupt_sort
    /\ interrupt_sort' = TRUE
    /\ UNCHANGED <<pc, run, source_directory, dryrun, tree, files, idx, stats,
                   interrupted, media, dst_path, interrupt_pickle, destfs,
                   log, started, stop, resumed, planned, copied>>
    /\ UNCHANGED <<varsDate, varsIso, varsLoc, varsDest, varsGeo>>

\* the top of the loop body: the flag, then the paths already done
Check ==
    /\ pc = "check" /\ idx <= Len(files)
    /\ IF interrupt_sort
       THEN /\ interrupt_pickle' = Pickled(stats)
            /\ interrupted' = TRUE
            /\ pc' = "end"
            /\ stop' = "interrupt"
            /\ UNCHANGED <<idx, started>>
       ELSE IF files[idx].path \in stats.paths
       THEN /\ idx' = idx + 1
            /\ UNCHANGED <<pc, interrupt_pickle, interrupted, stop, started>>
       ELSE /\ pc' = "plan"
            /\ started' = started \cup {idx}
            /\ UNCHANGED <<idx, interrupt_pickle, interrupted, stop>>
    /\ UNCHANGED <<run, source_directory, dryrun, tree, files, stats, media, dst_path,
                   interrupt_sort, destfs, log, resumed, planned, copied>>
    /\ UNCHANGED <<varsDate, varsIso, varsLoc, varsDest, varsGeo>>

\* the list is exhausted
LoopEnd ==
    /\ pc = "check" /\ idx > Len(files)
    /\ pc' = "end"
    /\ stop' = "complete"
    /\ UNCHANGED <<run, source_directory, dryrun, tree, files, idx, stats,
                   interrupted, media, dst_path, interrupt_sort, interrupt_pickle, destfs,
                   log, started, resumed, planned, copied>>
    /\ UNCHANGED <<varsDate, varsIso, varsLoc, varsDest, varsGeo>>

\* the exception that ends the try block for a MediaFile m planned as d
Raises(m, d) ==
    IF m.exc # "" THEN m.exc ELSE IF d.dup THEN "DuplicateException" ELSE ""

\* the try block up to the copy, for the MediaFile m, and its except clauses
Planned(m, d, exc, h) ==
    /\ coordinates' = m.cache
    /\ coordinates_pickle' = IF m.cache # coordinates THEN m.cache ELSE coordinates_pickle
    /\ IF exc = ""
       THEN /\ media' = [location |-> m.location, date |-> m.date]
            /\ dst_path' = d.dst
            /\ pc' = "copy"
            /\ UNCHANGED <<stats, interrupted, idx, stop, log>>
       ELSE /\ stats' = h.stats
            /\ interrupted' = (interrupted \/ h.break)
            /\ pc' = IF h.break THEN "end" ELSE "check"
            /\ idx' = IF h.break THEN idx ELSE idx + 1
            /\ stop' = IF h.break THEN "fatal" ELSE stop
            /\ log' = Append(log, Entry(exc, m.location))
            /\ UNCHANGED <<media, dst_path>>

PlanIn(m, d, exc) == Planned(m, d, exc, Handle(exc, stats, files[idx].path))

PlanAt(m, d) == PlanIn(m, d, Raises(m, d))

PlanFor(m) ==
    PlanAt(m, IF m.exc # "" THEN [dup |-> FALSE, dst |-> NoneStr]
              ELSE DestPath(destfs, DestDirectory(DestBase, m.date, m.location),
                            files[idx]))

\* MediaFile(path, locator) and media.dest_path(...), with the except clauses
Plan ==
    /\ pc = "plan"
    /\ \E available \in BOOLEAN :
          PlanFor(MediaFile(files[idx], coordinates, available, MainToday))
    /\ UNCHANGED <<run, source_directory, dryrun, tree, files, interrupt_sort,
                   interrupt_pickle, destfs, started, resumed, planned, copied, g_calls>>
    /\ UNCHANGED <<varsDate, varsIso, varsLoc, varsDest>>

\* media.copy(dst_path) unless it is a dry run, and the stats of the file;
\* the copy is stamped with the run it was made in, the sources are older
CopyFile ==
    /\ pc = "copy"
    /\ LET f == files[idx]
       IN  /\ destfs' = IF dryrun THEN destfs ELSE Copy(destfs, f, dst_path, run)
           /\ stats' = [stats EXCEPT !.paths = @ \cup {f.path},
                                     !.bytes = @ + Len(f.content)]
           /\ log' = Append(log, Entry(IF dryrun THEN "planned" ELSE "copied", media.location))
           /\ planned' = planned \cup {f.path}
           /\ copied' = IF dryrun THEN copied ELSE copied \cup {f.path}
    /\ idx' = idx + 1
    /\ pc' = "check"
    /\ UNCHANGED <<run, source_directory, dryrun, tree, files, interrupted, media, dst_path,
                   interrupt_sort, interrupt_pickle, started, stop, resumed>>
    /\ UNCHANGED <<varsDate, varsIso, varsLoc, varsDest, varsGeo>>

\* after the loop
Exit ==
    /\ pc = "end"
    /\ interrupt_pickle' = AtExit(interrupted, interrupt_pickle, stats)
    /\ pc' = "done"
    /\ UNCHANGED <<run, source_directory, dryrun, tree, files, idx, stats,
                   interrupted, media, dst_path, interrupt_sort, destfs,
                   log, started, stop, resumed, planned, copied>>
    /\ UNCHANGED <<varsDate, varsIso, varsLoc, varsDest, varsGeo>>

Next == Start \/ Signal \/ Check \/ LoopEnd \/ Plan \/ CopyFile \/ Exit

Spec == InitMain /\ [][Next]_vars

-----------------------------------------------------------------------------
(* The claims *)

Date(y, m, d) == [None EXCEPT !.year = y, !.month = m, !.day = d]

IsIMG(stem) == StartsWith(stem, "IMG_") \/ StartsWith(stem, "MOV_")
IsFILE(stem) == StartsWith(stem, "FILE")
IsPrefix(stem) == Len(stem) > 8

\* the dates that the filename rules a stem matches yield
FilenameDates(stem, today) ==
    {IF IsIMG(stem) THEN RuleIMG(stem, today) ELSE None,
     IF IsFILE(stem) THEN RuleFILE(stem, today) ELSE None,
     IF IsPrefix(stem) THEN RulePrefix(stem, today) ELSE None} \ {None}

\* C5: when the stem of an image or movie matches a filename rule that yields
\* a valid date, the resolved date is that date, whatever the embedded
\* DateTimeOriginal or creation_time says
Thm_C5_FilenameWins ==
    d_pc = "done" => \A fd \in FilenameDates(d_stem, d_today) : d_date = fd

\* the spec's example with a year in range: IMG_20230401_1234 with an embedded
\* date in 2099 resolves to 2023-04-01
Wit_C5_FilenameWins ==
    /\ d_pc = "done" /\ d_kind = "image"
    /\ d_stem = "IMG_20230401_1234" /\ d_meta = "2099:01:01 00:00:00"
    /\ d_date = Date(2023, 4, 1)

\* what each filename rule parses, before validation (None: it does not parse)
CandIMG(stem) == IF IsIMG(stem) THEN Strptime(SplitSecond(stem), FMT_Ymd) ELSE None
CandFILE(stem) == IF IsFILE(stem) THEN Strptime(Slice(stem, 4, 10), FMT_ymd) ELSE None
CandPrefix(stem) == IF IsPrefix(stem) THEN Strptime(Slice(stem, 0, 8), FMT_Ymd) ELSE None

Accepted(cand, today) == cand # None /\ cand.year >= 1990 /\ cand.year <= today

\* the chain as the claim reads it: every rule in turn, a rejected candidate
\* passing on to the next rule, the embedded date last
FallThrough(stem, kind, meta, today) ==
    IF Accepted(CandIMG(stem), today) THEN CandIMG(stem)
    ELSE IF Accepted(CandFILE(stem), today) THEN CandFILE(stem)
    ELSE IF Accepted(CandPrefix(stem), today) THEN CandPrefix(stem)
    ELSE IF meta = NoneStr THEN None
    ELSE IF kind = "image" THEN Strptime(meta, FMT_EXIF)
    ELSE IF Strptime(meta, FMT_ISO_T) # None THEN Strptime(meta, FMT_ISO_T)
    ELSE IF Strptime(meta, FMT_ISO_SP) # None THEN Strptime(meta, FMT_ISO_SP)
    ELSE Strptime(meta, FMT_ISO_TZ)

\* C6: a filename candidate that does not parse, or whose year is below 1990
\* or above the current year, counts as no match: the resolved date is what
\* the rest of the chain (the later filename rules, then the embedded date)
\* yields, and a date taken from the filename has its year in 1990 .. today
Thm_C6_RejectedFallsThrough ==
    d_pc = "done" =>
        /\ d_date = FallThrough(d_stem, d_kind, d_meta, d_today)
        /\ LET g == GuessDateByFilename(d_stem, d_today)
           IN  g # None => g.year >= 1990 /\ g.year <= d_today

\* a filename year one above the current year is rejected and the embedded
\* date is taken
Wit_C6_RejectedFallsThrough ==
    /\ d_pc = "done" /\ d_kind = "image"
    /\ CandIMG(d_stem) # None /\ CandIMG(d_stem).year = d_today + 1
    /\ d_meta = "2019:07:04 12:30:45"
    /\ d_date.year = 2019

\* the precedence of the claim: the first of these key sets the address holds
Precedence ==
    << <<"village", "suburb">>, <<"town", "suburb">>, <<"suburb">>,
       <<"village">>, <<"town">>, <<"state">> >>

RECURSIVE Reduce(_, _)
Reduce(address, k) ==
    IF k > Len(Precedence) THEN NoneStr
    ELSE LET ks == Precedence[k]
         IN  IF \A j \in 1..Len(ks) : ks[j] \in DOMAIN address
             THEN IF Len(ks) = 2 THEN address[ks[1]] \o "_" \o address[ks[2]]
                  ELSE address[ks[1]]
             ELSE Reduce(address, k + 1)

\* C7: the place name of an address is chosen by first match in the order
\* village_suburb, town_suburb, suburb, village, town, state, else none
Thm_C7_Precedence ==
    a_pc = "done" =>
        a_location = IF a_address = NoneAddr THEN NoneStr ELSE Reduce(a_address, 1)

\* the spec's example: {suburb: A, village: B, town: C} gives B_A
Wit_C7_Precedence ==
    /\ a_pc = "done"
    /\ DOMAIN a_address = {"suburb", "village", "town"}
    /\ a_address["suburb"] = "A" /\ a_address["village"] = "B" /\ a_address["town"] = "C"
    /\ a_location = "B_A"

RECURSIVE Concat(_)
Concat(ss) == IF ss = <<>> THEN "" ELSE Head(ss) \o Concat(Tail(ss))

\* the input without one trailing '/'
StripSlash(val) == IF EndsWith(val, "/") THEN SubSeq(val, 1, Len(val) - 1) ELSE val

\* every field starts where the input has a sign that is not the first
\* character of the field before it, and nowhere else
SplitsAtSigns(ret) ==
    /\ \A k \in 2..Len(ret) : ret[k] # "" /\ Ch(ret[k], 1) \in Sign
    /\ \A k \in 1..Len(ret) : \A j \in 2..Len(ret[k]) : Ch(ret[k], j) \notin Sign

\* C8: the fields of __iso6709 start at the signs that do not lead a field,
\* put together they are the input less one trailing '/', none of them is
\* empty, and +48.8566+002.3522/ gives +48.8566 and +002.3522
IsoClaim_C8 ==
    iso_pc = "done" =>
        /\ SplitsAtSigns(iso_ret)
        /\ Concat(iso_ret) = StripSlash(iso_val)
        /\ \A k \in 1..Len(iso_ret) : iso_ret[k] # ""
        /\ iso_val = "+48.8566+002.3522/" => iso_ret = <<"+48.8566", "+002.3522">>

\* the first candidate number that names no file of fs
RECURSIVE FirstFree(_, _, _)
FirstFree(fs, src, k) ==
    IF Candidate(src, k) \in DOMAIN fs THEN FirstFree(fs, src, k + 1) ELSE k

\* C4: dest_path tries name, name_1, name_2, ... in that order; when every
\* candidate that exists before the first free one differs in content from
\* the source, it returns that first free candidate; what it returns never
\* names an existing file; with photo.jpg and photo_1.jpg there and both
\* different from the source the result is photo_2.jpg
DestClaim_C4 ==
    p_pc \in {"returned", "raised"} =>
        LET free == FirstFree(p_fs, p_src, 0)
        IN  /\ \A k \in 1..Len(p_tried) : p_tried[k] = Candidate(p_src, k - 1)
            /\ (\A k \in 0..(free - 1) : p_fs[Candidate(p_src, k)].content # p_src.content)
                   => p_pc = "returned" /\ p_dst = Candidate(p_src, free)
            /\ p_pc = "returned" => p_dst \notin DOMAIN p_fs

\* the same with "differs" read as filecmp.cmp reads it
DestAsCompared ==
    p_pc \in {"returned", "raised"} =>
        LET free == FirstFree(p_fs, p_src, 0)
        IN  /\ \A k \in 1..Len(p_tried) : p_tried[k] = Candidate(p_src, k - 1)
            /\ (\A k \in 0..(free - 1) : ~Cmp(p_fs[Candidate(p_src, k)], p_src))
                   => p_pc = "returned" /\ p_dst = Candidate(p_src, free)
            /\ p_pc = "returned" => p_dst \notin DOMAIN p_fs

SameKey(i, j) == i < j /\ g_calls[i].key = g_calls[j].key
GaveAddress(i) == g_calls[i].exc = "" /\ g_calls[i].ret # NoneAddr
Lookups(key) == Cardinality({i \in 1..Len(g_calls) : g_calls[i].key = key /\ g_calls[i].lookup})

\* C2 as stated: of any two calls whose coordinates round to the same cache
\* key exactly one looks up, the second is a cache hit without network access
\* and returns what the first returned
CacheClaim_C2 ==
    \A i, j \in 1..Len(g_calls) :
        SameKey(i, j) =>
            /\ Cardinality({k \in {i, j} : g_calls[k].lookup}) = 1
            /\ ~g_calls[j].lookup /\ g_calls[j].exc = ""
            /\ g_calls[j].ret = g_calls[i].ret

\* C2 amended: once a call has returned an address for a cache key, every
\* later call with that key is a cache hit without network access that
\* returns the same structure; a key whose first call looks up and succeeds
\* costs one lookup in all
Thm_C2_CacheHit ==
    \A i, j \in 1..Len(g_calls) :
        SameKey(i, j) /\ GaveAddress(i) =>
            /\ ~g_calls[j].lookup /\ g_calls[j].exc = ""
            /\ g_calls[j].ret = g_calls[i].ret
            /\ (g_calls[i].lookup /\ \A k \in 1..(i - 1) : g_calls[k].key # g_calls[i].key)
                   => Lookups(g_calls[i].key) = 1

\* two calls with different coordinates and one key: a lookup, then a hit
Wit_C2_CacheHit ==
    /\ Len(g_calls) >= 2
    /\ g_calls[1].lookup /\ GaveAddress(1)
    /\ g_calls[2].key = g_calls[1].key /\ g_calls[2].point # g_calls[1].point
    /\ ~g_calls[2].lookup /\ g_calls[2].ret = g_calls[1].ret

Processed(e) == e.outcome \in {"copied", "planned", "UnknownMedia", "DuplicateException"}

\* C1: when processing a file raises GeocoderUnavailable the batch stops at
\* that file, and the run state then saved holds every file processed before
\* it in the batch (copied, ignored as unsupported, or counted as duplicate)
\* and not the failing file
Thm_C1_AbortPersists ==
    \A k \in 1..Len(log) :
        log[k].outcome = "GeocoderUnavailable" =>
            /\ k = Len(log) /\ pc \in {"end", "done"}
            /\ \A i \in started : i <= log[k].idx
            /\ pc = "done" =>
                /\ interrupt_pickle.exists
                /\ log[k].path \notin interrupt_pickle.stats.paths
                /\ \A j \in 1..(k - 1) :
                       Processed(log[j]) => log[j].path \in interrupt_pickle.stats.paths

\* a batch that processed a file, then failed on the geocoder, and has saved
\* its state
Wit_C1_AbortPersists ==
    /\ pc = "done" /\ Len(log) = 2
    /\ Processed(log[1]) /\ log[2].outcome = "GeocoderUnavailable"
    /\ interrupt_pickle.exists
    /\ interrupt_pickle.stats.paths = {log[1].path}

\* what a second attempt at the file in hand does, as C3 has it: a Duplicate
\* signal, nothing written, the duplicate counter up by one
SecondAttempt ==
    /\ pc' = "check"
    /\ Len(log') = Len(log) + 1
    /\ log'[Len(log')].outcome = "DuplicateException"
    /\ log'[Len(log')].path = files[idx].path
    /\ destfs' = destfs
    /\ stats'.bytes = stats.bytes
    /\ stats'.duplicates = stats.duplicates + 1

\* C3 as stated: a file processed before into the same destination (copied,
\* or planned in a dry run) is a Duplicate the second time
DupClaim_C3 ==
    [][(pc = "plan" /\ pc' # "plan" /\ files[idx].path \in planned) => SecondAttempt]_vars

\* C3 amended: a file that an earlier attempt copied into the same
\* destination is a Duplicate the second time: nothing is written and the
\* duplicate counter goes up by one
Thm_C3_SecondIsDuplicate ==
    [][(pc = "plan" /\ pc' # "plan" /\ files[idx].path \in copied) => SecondAttempt]_vars

\* a file copied by an earlier run has come up again and counted as duplicate
Wit_C3_SecondIsDuplicate ==
    /\ run = 2 /\ Len(log) >= 1
    /\ log[Len(log)].had_copy /\ log[Len(log)].outcome = "DuplicateException"
    /\ stats.duplicates = 1 /\ stats.bytes = 0

\* location metadata that is there and malformed: a GPSInfo without index 2 or
\* 4 or with an entry there that is no triple, a movie's location tag of
\* fewer than two parts
Malformed(f) ==
    \/ /\ Lower(f.suffix) \in {".jpg", ".jpeg", ".png"}
       /\ f.exif.has_gps
       /\ \E n \in {2, 4} : n \notin DOMAIN f.exif.gps \/ Len(f.exif.gps[n]) # 3
    \/ /\ Lower(f.suffix) \in {".mp4", ".mov", ".avi"}
       /\ LocationTag(f.metadata) # NoneStr
       /\ Len(Iso6709(LocationTag(f.metadata))) < 2

\* C9: a file with malformed location metadata gets no location, is planned
\* (and copied, or found to be a duplicate) all the same, and the batch goes on
MalformedClaim_C9 ==
    \A k \in 1..Len(log) :
        Malformed(Universe[FileOf(log[k].path)]) =>
            /\ log[k].outcome \in {"copied", "planned", "DuplicateException"}
            /\ log[k].location = NoneStr

\* C10: the flag stops the batch only between files (every file begun has
\* been planned and copied, ignored or counted when a batch ends on the
\* flag), and when the program ends interrupt.pickle exists, holding the
\* stats, if the batch ended on the flag or on a fatal error, and does not
\* exist if the batch ran to its end
Thm_C10_RunStateFile ==
    /\ stop = "interrupt" =>
           \A i \in started : \E k \in 1..Len(log) : log[k].idx = i /\ Processed(log[k])
    /\ pc = "done" =>
           /\ interrupt_pickle.exists <=> stop \in {"interrupt", "fatal"}
           /\ interrupt_pickle.exists => interrupt_pickle.stats = stats

\* a run that took up a saved state and ran to its end: the file is gone
Wit_C10_RunStateFile ==
    /\ pc = "done" /\ resumed /\ stats.paths # {}
    /\ stop = "complete" /\ ~interrupt_pickle.exists

====
